---- MODULE Spec2Model ----
(***************************************************************************)
(* Task lifecycle and column ownership of the notes-app Kanban backend.    *)
(*                                                                         *)
(* The relational tables (users, boards, columns, tasks) are sequences of  *)
(* rows; a row's id is its index in the table (the database generates a    *)
(* fresh id for every insert).  Every HTTP handler is one action: it reads *)
(* the tables, writes them, and leaves the HTTP response in `last`.        *)
(***************************************************************************)
EXTENDS Integers, Sequences, FiniteSets, TLC

(* ------------------------------ bounds -------------------------------- *)
\* tasks ever created under Spec
MaxTasks == 1

\* largest position a move may assign
MaxPos == 2

\* tasks ever created under SpecBoard, SpecSeq, SpecClear, SpecCreate and
\* SpecContent
MaxBoardTasks == 2

MaxSeqTasks == 2

MaxClearTasks == 2

MaxCreateTasks == 2

MaxContentTasks == 2

\* tasks ever created under SpecEdit
MaxEditTasks == 1

\* tasks ever created under SpecColor
MaxColorTasks == 1

\* tasks ever created under SpecStep
MaxStepTasks == 1

\* tasks ever created under SpecLane
MaxLaneTasks == 2

\* tasks ever created under SpecFlow
MaxFlowTasks == 2

\* tasks ever created under SpecPos
MaxPosTasks == 2

\* tasks ever created and latest clock reading under SpecClock
MaxClockTasks == 1

MaxTime == 2

\* tasks ever created under SpecMissing
MaxMissingTasks == 1

\* tasks ever created under SpecRace
MaxRaceTasks == 1

\* tasks created or being created under SpecDup
MaxDupTasks == 2

\* tasks ever created under SpecStale
MaxStaleTasks == 1

\* tasks ever created under SpecSame
MaxSameTasks == 2

\* tasks ever created under SpecDrag
MaxDragTasks == 2

\* tasks ever created under SpecRead
MaxReadTasks == 3

\* The tables, the database clock and the response to the latest request.
VARIABLES users, boards, columns, tasks, now, last

\* What an observer of the requests has seen: the latest request, the
\* response before the latest one, and the kinds of operation that have
\* succeeded so far.  Each specification records the ones its properties use.
VARIABLES req, prev, done

\* The requests in flight, one per connection: a handler that has started
\* and not yet answered, with the values it has read so far.  Only the
\* specifications that run handlers one await at a time use it.
VARIABLE calls

vars == <<users, boards, columns, tasks, now, last, req, prev, done, calls>>

(* --------------------------- request values --------------------------- *)
\* A JSON value of a request body: undefined (field absent), null, a string
\* (a sequence of characters) or a number.
Undefined == [k |-> "undef", n |-> 0, s |-> <<>>]

Null == [k |-> "null", n |-> 0, s |-> <<>>]

Str(s) == [k |-> "str", n |-> 0, s |-> s]

Num(n) == [k |-> "num", n |-> n, s |-> <<>>]

\* JavaScript truthiness, as used by the `!x` tests of the controllers.
Falsy(v) ==
  \/ v.k \in {"undef", "null"}
  \/ v.k = "str" /\ v.s = <<>>
  \/ v.k = "num" /\ v.n = 0

Digits == {"0", "1", "2", "3", "4", "5", "6", "7", "8", "9"}

\* Number.isNaN(Number(v)): undefined and non-numeric strings are NaN; null,
\* the empty string and blank strings convert to 0, digit strings to a number.
IsNaNNumber(v) ==
  \/ v.k = "undef"
  \/ /\ v.k = "str"
     /\ \E i \in 1..Len(v.s) : v.s[i] # " "
     /\ \E i \in 1..Len(v.s) : v.s[i] \notin Digits

\* String.prototype.trim(): drop leading and trailing blanks.
RECURSIVE TrimLeft(_)
TrimLeft(s) == IF s # <<>> /\ Head(s) = " " THEN TrimLeft(Tail(s)) ELSE s

RECURSIVE TrimRight(_)
TrimRight(s) ==
  IF s # <<>> /\ s[Len(s)] = " " THEN TrimRight(SubSeq(s, 1, Len(s) - 1)) ELSE s

Trim(s) == TrimRight(TrimLeft(s))

(* ------------------------------ helpers ------------------------------- *)
Max(S) == CHOOSE x \in S : \A y \in S : y <= x

\* res.rows[0] || null : the first row of a result, as a sequence of length
\* at most one (the empty sequence is null).
FirstRow(rows) == IF rows = <<>> THEN <<>> ELSE <<rows[1]>>

\* ids and shown are the body of a board read: the ids of the tasks it
\* lists, and each listed task with the column_id it is listed under.
NoResponse ==
  [op |-> "none", status |-> 0, user |-> 0, task |-> 0, count |-> 0, ids |-> {},
   shown |-> {}, slugs |-> <<>>, board |-> 0, cols |-> <<>>]

Response(op, status, user, task) ==
  [op |-> op, status |-> status, user |-> user, task |-> task, count |-> 0, ids |-> {},
   shown |-> {}, slugs |-> <<>>, board |-> 0, cols |-> <<>>]

(* ---------------------------- repositories ---------------------------- *)
findUserByEmail(email) == FirstRow(SelectSeq(users, LAMBDA u : u.email = email))

\* users.email is UNIQUE: an INSERT of a present email is a unique violation
emailIsFree(email) == \A i \in 1..Len(users) : users[i].email # email

createUser(email) == Append(users, [id |-> Len(users) + 1, email |-> email])

\* boards.owner_id is UNIQUE: an INSERT for an owner who has a board is a
\* unique violation
ownerIdIsFreeUnchecked(ownerId) == TRUE

ownerIdIsFree(ownerId) == \A i \in 1..Len(boards) : boards[i].owner_id # ownerId

createBoardForUser(ownerId) ==
  Append(boards, [id |-> Len(boards) + 1, owner_id |-> ownerId])

findBoardByOwnerId(ownerId) ==
  FirstRow(SelectSeq(boards, LAMBDA b : b.owner_id = ownerId))

DefaultColumns == <<"TODO", "IN_PROGRESS", "DONE">>

\* one INSERT of the loop of createDefaultColumnsForBoard
insertDefaultColumn(boardId, i) ==
  Append(columns, [id |-> Len(columns) + 1, board_id |-> boardId,
                   slug |-> DefaultColumns[i], position |-> i])

createDefaultColumnsForBoard(boardId) ==
  columns \o [i \in 1..Len(DefaultColumns) |->
                [id |-> Len(columns) + i, board_id |-> boardId,
                 slug |-> DefaultColumns[i], position |-> i]]

findColumnById(columnId) ==
  FirstRow(SelectSeq(columns, LAMBDA c : c.id = columnId))

findColumnBySlug(boardId, slug) ==
  FirstRow(SelectSeq(columns, LAMBDA c : c.board_id = boardId /\ c.slug = slug))

findTodoColumnForUserAnyBoard(userId) ==
  LET board == findBoardByOwnerId(userId)
  IN IF board = <<>> THEN <<>>
     ELSE <<[board |-> board[1],
             column |-> FirstRow(SelectSeq(columns, LAMBDA c : c.slug = "TODO"))]>>

\* null when the user has no board, else the board with its TODO column
\* (column possibly null).
findTodoColumnForUser(userId) ==
  LET board == findBoardByOwnerId(userId)
  IN IF board = <<>> THEN <<>>
     ELSE <<[board |-> board[1], column |-> findColumnBySlug(board[1].id, "TODO")]>>

findDoneColumnForBoard(boardId) == findColumnBySlug(boardId, "DONE")

\* ORDER BY position ASC
RECURSIVE SortByPosition(_)
SortByPosition(rows) ==
  IF rows = <<>> THEN <<>>
  ELSE LET i == CHOOSE i \in 1..Len(rows) :
                  \A j \in 1..Len(rows) :
                    \/ rows[i].position < rows[j].position
                    \/ rows[i].position = rows[j].position /\ i <= j
           rest == [j \in 1..(Len(rows) - 1) |-> IF j < i THEN rows[j] ELSE rows[j + 1]]
       IN <<rows[i]>> \o SortByPosition(rest)

getColumnsByBoardIdAnyBoard(boardId) ==
  SortByPosition(columns)

getColumnsByBoardId(boardId) ==
  SortByPosition(SelectSeq(columns, LAMBDA c : c.board_id = boardId))

getActiveTasksByBoardIdWithDeleted(boardId) ==
  SelectSeq(tasks, LAMBDA t : t.board_id = boardId)

getActiveTasksByBoardId(boardId) ==
  SelectSeq(tasks, LAMBDA t : t.board_id = boardId /\ t.is_deleted = FALSE)

getNextPositionForColumnNoIncrement(columnId) ==
  LET P == {tasks[i].position : i \in {j \in 1..Len(tasks) :
                tasks[j].column_id = columnId /\ tasks[j].is_deleted = FALSE}}
  IN IF P = {} THEN 1 ELSE Max(P)

\* COALESCE(MAX(position), 0) + 1 over the active tasks of the column
getNextPositionForColumn(columnId) ==
  LET P == {tasks[i].position : i \in {j \in 1..Len(tasks) :
                tasks[j].column_id = columnId /\ tasks[j].is_deleted = FALSE}}
  IN (IF P = {} THEN 0 ELSE Max(P)) + 1

\* INSERT INTO tasks: description ?? null; is_deleted, deleted_at,
\* created_at and updated_at take the column defaults.
createTask(boardId, columnId, title, description, position, color) ==
  Append(tasks,
    [id |-> Len(tasks) + 1, board_id |-> boardId, column_id |-> columnId,
     title |-> title.s,
     description |-> IF description.k \in {"undef", "null"} THEN Null ELSE description,
     position |-> position, color |-> color,
     is_deleted |-> FALSE, deleted_at |-> -1,
     created_at |-> now, updated_at |-> now])

findTaskByIdForUserNoOwnerJoin(taskId, userId) ==
  FirstRow(SelectSeq(tasks, LAMBDA t : t.id = taskId /\ t.is_deleted = FALSE))

findTaskByIdForUserAnyState(taskId, userId) ==
  FirstRow(SelectSeq(tasks, LAMBDA t :
    /\ t.id = taskId
    /\ \E i \in 1..Len(boards) : boards[i].id = t.board_id /\ boards[i].owner_id = userId))

\* tasks JOIN boards: the task, only if active and on a board owned by userId
findTaskByIdForUser(taskId, userId) ==
  FirstRow(SelectSeq(tasks, LAMBDA t :
    /\ t.id = taskId
    /\ \E i \in 1..Len(boards) : boards[i].id = t.board_id /\ boards[i].owner_id = userId
    /\ t.is_deleted = FALSE))

moveTaskToColumnRecoloured(taskId, targetColumnId, newPosition) ==
  [i \in 1..Len(tasks) |->
     IF tasks[i].id = taskId
       THEN [tasks[i] EXCEPT !.column_id = targetColumnId, !.position = newPosition,
                             !.color = "pastel-yellow"]
       ELSE tasks[i]]

\* UPDATE tasks SET column_id, position WHERE id = taskId
moveTaskToColumn(taskId, targetColumnId, newPosition) ==
  [i \in 1..Len(tasks) |->
     IF tasks[i].id = taskId
       THEN [tasks[i] EXCEPT !.column_id = targetColumnId, !.position = newPosition]
       ELSE tasks[i]]

updateTaskWithoutCoalesce(taskId, title, description) ==
  [i \in 1..Len(tasks) |->
     IF tasks[i].id = taskId /\ tasks[i].is_deleted = FALSE
       THEN [tasks[i] EXCEPT
               !.title = IF title.k \in {"undef", "null"} THEN @ ELSE title.s,
               !.description = IF description.k \in {"undef", "null"} THEN Null ELSE description,
               !.updated_at = now]
       ELSE tasks[i]]

\* UPDATE tasks SET title = COALESCE($1, title),
\*   description = COALESCE($2, description), updated_at = NOW()
\* WHERE id = taskId AND is_deleted = false
\* (an undefined parameter is sent to the database as NULL)
updateTask(taskId, title, description) ==
  [i \in 1..Len(tasks) |->
     IF tasks[i].id = taskId /\ tasks[i].is_deleted = FALSE
       THEN [tasks[i] EXCEPT
               !.title = IF title.k \in {"undef", "null"} THEN @ ELSE title.s,
               !.description = IF description.k \in {"undef", "null"} THEN @ ELSE description,
               !.updated_at = now]
       ELSE tasks[i]]

softDeleteDoneTasksForBoardAnyColumn(boardId, doneColumnId) ==
  LET hit == {i \in 1..Len(tasks) :
                tasks[i].board_id = boardId /\ tasks[i].is_deleted = FALSE}
  IN [tasks |-> [i \in 1..Len(tasks) |->
                   IF i \in hit
                     THEN [tasks[i] EXCEPT !.is_deleted = TRUE, !.deleted_at = now]
                     ELSE tasks[i]],
      rowCount |-> Cardinality(hit)]

softDeleteDoneTasksForBoardAnyState(boardId, doneColumnId) ==
  LET hit == {i \in 1..Len(tasks) :
                tasks[i].board_id = boardId /\ tasks[i].column_id = doneColumnId}
  IN [tasks |-> [i \in 1..Len(tasks) |->
                   IF i \in hit
                     THEN [tasks[i] EXCEPT !.is_deleted = TRUE, !.deleted_at = now]
                     ELSE tasks[i]],
      rowCount |-> Cardinality(hit)]

\* UPDATE tasks SET is_deleted = true, deleted_at = NOW()
\* WHERE board_id = $1 AND column_id = $2 AND is_deleted = false
\* RETURNING id; the function returns res.rowCount
softDeleteDoneTasksForBoard(boardId, doneColumnId) ==
  LET hit == {i \in 1..Len(tasks) :
                /\ tasks[i].board_id = boardId
                /\ tasks[i].column_id = doneColumnId
                /\ tasks[i].is_deleted = FALSE}
  IN [tasks |-> [i \in 1..Len(tasks) |->
                   IF i \in hit
                     THEN [tasks[i] EXCEPT !.is_deleted = TRUE, !.deleted_at = now]
                     ELSE tasks[i]],
      rowCount |-> Cardinality(hit)]

\* Marks one task deleted with a timestamp.
softDeleteTask(taskId) ==
  [i \in 1..Len(tasks) |->
     IF tasks[i].id = taskId
       THEN [tasks[i] EXCEPT !.is_deleted = TRUE, !.deleted_at = now]
       ELSE tasks[i]]

PASTEL_COLORS == <<"pastel-yellow", "pastel-pink", "pastel-green", "pastel-blue">>

\* PASTEL_COLORS[Math.floor(Math.random() * PASTEL_COLORS.length)], where
\* r is the value of that floor (Math.random() lies in [0, 1)).
getRandomPastelColor(r) == PASTEL_COLORS[r + 1]

RandomDraws == 0..(Len(PASTEL_COLORS) - 1)

RECURSIVE DigitsToInt(_)
DigitsToInt(s) ==
  IF s = <<>> THEN 0
  ELSE 10 * DigitsToInt(SubSeq(s, 1, Len(s) - 1))
       + (CHOOSE d \in 0..9 : <<"0", "1", "2", "3", "4", "5", "6", "7", "8", "9">>[d + 1] = s[Len(s)])

\* The integer the database stores for a position parameter that is a
\* number or a string of digits.
PositionValue(v) == IF v.k = "num" THEN v.n ELSE DigitsToInt(v.s)

(* ------------------------------ services ------------------------------ *)
\* A service call ends with a status (200 when it returns, err.status when
\* it throws) and leaves the tasks table as given.
Outcome(status, newTasks, task, count) ==
  [status |-> status, tasks |-> newTasks, task |-> task, count |-> count]

\* r is Math.floor(Math.random() * PASTEL_COLORS.length)
createTaskForUser(userId, title, description, r) ==
  LET result == findTodoColumnForUser(userId)
  IN IF result = <<>> \/ result[1].column = <<>>
       THEN Outcome(404, tasks, 0, 0)
       ELSE LET board == result[1].board
                column == result[1].column[1]
                position == getNextPositionForColumn(column.id)
                color == getRandomPastelColor(r)
            IN Outcome(200,
                       createTask(board.id, column.id, title, description, position, color),
                       Len(tasks) + 1, 0)

moveTaskForUserNoBoardCheck(userId, taskId, targetColumnId, newPosition) ==
  LET task == findTaskByIdForUser(taskId, userId)
      column == findColumnById(targetColumnId)
  IN IF task = <<>> THEN Outcome(404, tasks, taskId, 0)
     ELSE IF column = <<>> THEN Outcome(404, tasks, taskId, 0)
     ELSE LET positionToUse ==
                IF Falsy(newPosition) \/ IsNaNNumber(newPosition)
                  THEN getNextPositionForColumn(column[1].id)
                  ELSE PositionValue(newPosition)
          IN Outcome(200, moveTaskToColumn(taskId, column[1].id, positionToUse), taskId, 0)

moveTaskForUserForwardOnly(userId, taskId, targetColumnId, newPosition) ==
  LET task == findTaskByIdForUser(taskId, userId)
      column == findColumnById(targetColumnId)
  IN IF task = <<>> THEN Outcome(404, tasks, taskId, 0)
     ELSE IF column = <<>> THEN Outcome(404, tasks, taskId, 0)
     ELSE IF column[1].board_id # task[1].board_id THEN Outcome(403, tasks, taskId, 0)
     ELSE IF column[1].id < task[1].column_id THEN Outcome(403, tasks, taskId, 0)
     ELSE LET positionToUse ==
                IF Falsy(newPosition) \/ IsNaNNumber(newPosition)
                  THEN getNextPositionForColumn(column[1].id)
                  ELSE PositionValue(newPosition)
          IN Outcome(200, moveTaskToColumn(taskId, column[1].id, positionToUse), taskId, 0)

moveTaskForUserColumnForbidden(userId, taskId, targetColumnId, newPosition) ==
  LET task == findTaskByIdForUser(taskId, userId)
      column == findColumnById(targetColumnId)
  IN IF task = <<>> THEN Outcome(404, tasks, taskId, 0)
     ELSE IF column = <<>> THEN Outcome(403, tasks, taskId, 0)
     ELSE IF column[1].board_id # task[1].board_id THEN Outcome(403, tasks, taskId, 0)
     ELSE LET positionToUse ==
                IF Falsy(newPosition) \/ IsNaNNumber(newPosition)
                  THEN getNextPositionForColumn(column[1].id)
                  ELSE PositionValue(newPosition)
          IN Outcome(200, moveTaskToColumn(taskId, column[1].id, positionToUse), taskId, 0)

moveTaskForUserSameColumnKept(userId, taskId, targetColumnId, newPosition) ==
  LET task == findTaskByIdForUser(taskId, userId)
      column == findColumnById(targetColumnId)
  IN IF task = <<>> THEN Outcome(404, tasks, taskId, 0)
     ELSE IF column = <<>> THEN Outcome(404, tasks, taskId, 0)
     ELSE IF column[1].board_id # task[1].board_id THEN Outcome(403, tasks, taskId, 0)
     ELSE IF column[1].id = task[1].column_id THEN Outcome(200, tasks, taskId, 0)
     ELSE LET positionToUse ==
                IF Falsy(newPosition) \/ IsNaNNumber(newPosition)
                  THEN getNextPositionForColumn(column[1].id)
                  ELSE PositionValue(newPosition)
          IN Outcome(200, moveTaskToColumn(taskId, column[1].id, positionToUse), taskId, 0)

moveTaskForUser(userId, taskId, targetColumnId, newPosition) ==
  LET task == findTaskByIdForUser(taskId, userId)
      column == findColumnById(targetColumnId)
  IN IF task = <<>> THEN Outcome(404, tasks, taskId, 0)
     ELSE IF column = <<>> THEN Outcome(404, tasks, taskId, 0)
     ELSE IF column[1].board_id # task[1].board_id THEN Outcome(403, tasks, taskId, 0)
     ELSE LET positionToUse ==
                IF Falsy(newPosition) \/ IsNaNNumber(newPosition)
                  THEN getNextPositionForColumn(column[1].id)
                  ELSE PositionValue(newPosition)
          IN Outcome(200, moveTaskToColumn(taskId, column[1].id, positionToUse), taskId, 0)

updateTaskForUser(userId, taskId, title, description) ==
  IF findTaskByIdForUser(taskId, userId) = <<>>
    THEN Outcome(404, tasks, taskId, 0)
    ELSE Outcome(200, updateTask(taskId, title, description), taskId, 0)

deleteTaskForUser(userId, taskId) ==
  IF findTaskByIdForUser(taskId, userId) = <<>>
    THEN Outcome(404, tasks, taskId, 0)
    ELSE Outcome(200, softDeleteTask(taskId), taskId, 0)

removeDoneTasksForMyBoard(userId) ==
  LET board == findBoardByOwnerId(userId)
  IN IF board = <<>> THEN Outcome(404, tasks, 0, 0)
     ELSE LET doneColumn == findDoneColumnForBoard(board[1].id)
          IN IF doneColumn = <<>> THEN Outcome(404, tasks, 0, 0)
             ELSE LET removed == softDeleteDoneTasksForBoard(board[1].id, doneColumn[1].id)
                  IN Outcome(200, removed.tasks, 0, removed.rowCount)

getMyBoardEmptyWithoutBoard(userId) ==
  LET board == findBoardByOwnerId(userId)
  IN IF board = <<>>
       THEN <<[board |-> [id |-> 0, owner_id |-> userId], columns |-> <<>>, tasks |-> <<>>]>>
     ELSE <<[board |-> board[1],
             columns |-> getColumnsByBoardId(board[1].id),
             tasks |-> getActiveTasksByBoardId(board[1].id)]>>

\* null (the empty sequence) when the user has no board
getMyBoard(userId) ==
  LET board == findBoardByOwnerId(userId)
  IN IF board = <<>> THEN <<>>
     ELSE <<[board |-> board[1],
             columns |-> getColumnsByBoardId(board[1].id),
             tasks |-> getActiveTasksByBoardId(board[1].id)]>>

(* ------------------------------ handlers ------------------------------ *)
\* POST /auth/register
registerUser(email) ==
  /\ IF findUserByEmail(email) # <<>>
       THEN /\ last' = Response("register", 409, 0, 0)
            /\ UNCHANGED <<users, boards, columns>>
       ELSE /\ users' = createUser(email)
            /\ boards' = createBoardForUser(Len(users) + 1)
            /\ columns' = createDefaultColumnsForBoard(Len(boards) + 1)
            /\ last' = Response("register", 201, Len(users) + 1, 0)
  /\ UNCHANGED <<tasks, now>>

\* POST /tasks
createTaskController(userId, title, description, r) ==
  /\ IF Falsy(title)
       THEN /\ last' = Response("create", 400, userId, 0)
            /\ UNCHANGED tasks
       ELSE LET res == createTaskForUser(userId, title, description, r)
            IN /\ tasks' = res.tasks
               /\ last' = Response("create", IF res.status = 200 THEN 201 ELSE res.status,
                                   userId, res.task)
  /\ UNCHANGED <<users, boards, columns, now>>

\* PATCH /tasks/:id/move
moveTaskController(userId, taskId, target_column_id, new_position) ==
  /\ IF Falsy(target_column_id)
       THEN /\ last' = Response("move", 400, userId, taskId)
            /\ UNCHANGED tasks
       ELSE LET res == moveTaskForUser(userId, taskId, target_column_id.n, new_position)
            IN /\ tasks' = res.tasks
               /\ last' = Response("move", res.status, userId, taskId)
  /\ UNCHANGED <<users, boards, columns, now>>

\* PATCH /tasks/:id
updateTaskController(userId, taskId, title, description) ==
  /\ IF Falsy(title) /\ Falsy(description)
       THEN /\ last' = Response("update", 400, userId, taskId)
            /\ UNCHANGED tasks
       ELSE LET res == updateTaskForUser(userId, taskId, title, description)
            IN /\ tasks' = res.tasks
               /\ last' = Response("update", res.status, userId, taskId)
  /\ UNCHANGED <<users, boards, columns, now>>

deleteTaskControllerSilent(userId, taskId) ==
  /\ LET res == deleteTaskForUser(userId, taskId)
     IN /\ tasks' = res.tasks
        /\ last' = Response("delete", 200, userId, taskId)
  /\ UNCHANGED <<users, boards, columns, now>>

\* DELETE /tasks/:id
deleteTaskController(userId, taskId) ==
  /\ LET res == deleteTaskForUser(userId, taskId)
     IN /\ tasks' = res.tasks
        /\ last' = Response("delete", res.status, userId, taskId)
  /\ UNCHANGED <<users, boards, columns, now>>

\* POST /me/board/remove-done-tasks
removeDoneTasksController(userId) ==
  /\ LET res == removeDoneTasksForMyBoard(userId)
     IN /\ tasks' = res.tasks
        /\ last' = [Response("clear", res.status, userId, 0) EXCEPT !.count = res.count]
  /\ UNCHANGED <<users, boards, columns, now>>

\* GET /me/board
getMyBoardController(userId) ==
  /\ LET result == getMyBoard(userId)
     IN IF result = <<>>
          THEN last' = Response("get", 404, userId, 0)
          ELSE last' = [Response("get", 200, userId, 0) EXCEPT
                          !.ids = {result[1].tasks[i].id : i \in 1..Len(result[1].tasks)},
                          !.shown = {<<result[1].tasks[i].id, result[1].tasks[i].column_id>> :
                                       i \in 1..Len(result[1].tasks)},
                          !.slugs = [i \in 1..Len(result[1].columns) |->
                                       result[1].columns[i].slug],
                          !.board = result[1].board.id,
                          !.cols = [i \in 1..Len(result[1].columns) |->
                                      result[1].columns[i].id]]
  /\ UNCHANGED <<users, boards, columns, tasks, now>>

(* ------------------------------- inputs ------------------------------- *)
\* two registrants: a request comes from a task's owner or from somebody else
Emails == {1, 2}

UserIds == {users[i].id : i \in 1..Len(users)}

\* ids of the existing tasks and one id that names no task
TaskIds == 1..(Len(tasks) + 1)

ExistingColumns == {Num(c) : c \in 1..Len(columns)}

TitleInputs == {Undefined, Str(<<>>), Str(<<" ">>), Str(<<"a">>)}

DescriptionInputs == {Undefined, Str(<<"d">>)}

\* a named column: an existing one or an id that names none
NamedColumns == {Num(c) : c \in 1..(Len(columns) + 1)}

PositionInputs == {Undefined, Num(0), Num(1), Num(2), Num(-1), Str(<<"x">>)}

PositionsWithinBound == \A i \in 1..Len(tasks') : tasks'[i].position <= MaxPos

\* the user whose board holds task t
OwnerOfTask(t) == boards[tasks[t].board_id].owner_id

NoRequest == [op |-> "none", title |-> Undefined, description |-> Undefined]

\* two connections: a request runs alone or interleaved with one other
Slots == {1, 2}

\* a connection with no request in flight
IdleCall ==
  [op |-> "idle", step |-> "idle", user |-> 0, task |-> 0, target |-> 0,
   board |-> 0, column |-> 0, position |-> 0, email |-> 0, from |-> 0]

(* ---------------------------- specification --------------------------- *)
Init ==
  /\ users = <<>>
  /\ boards = <<>>
  /\ columns = <<>>
  /\ tasks = <<>>
  /\ now = 0
  /\ last = NoResponse
  /\ req = NoRequest
  /\ prev = NoResponse
  /\ done = {}
  /\ calls = [s \in Slots |-> IdleCall]

\* Spec: ownership and lifecycle.  Every handler, any user against any task
\* and any column; tasks with one title and one colour.
Register ==
  /\ \E e \in Emails : registerUser(e)
  /\ UNCHANGED <<req, prev, done, calls>>

Create ==
  /\ \E u \in UserIds :
       /\ Len(tasks) < MaxTasks
       /\ createTaskController(u, Str(<<"a">>), Undefined, 0)
       /\ PositionsWithinBound
  /\ UNCHANGED <<req, prev, done, calls>>

Move ==
  /\ \E u \in UserIds, t \in 1..Len(tasks), c \in NamedColumns :
       /\ moveTaskController(u, t, c, Undefined)
       /\ PositionsWithinBound
  /\ UNCHANGED <<req, prev, done, calls>>

Update ==
  /\ \E u \in UserIds, t \in 1..Len(tasks) :
       updateTaskController(u, t, Str(<<"a">>), Undefined)
  /\ UNCHANGED <<req, prev, done, calls>>

Delete ==
  /\ \E u \in UserIds, t \in 1..Len(tasks) : deleteTaskController(u, t)
  /\ UNCHANGED <<req, prev, done, calls>>

Clear ==
  /\ \E u \in UserIds : removeDoneTasksController(u)
  /\ UNCHANGED <<req, prev, done, calls>>

Get ==
  /\ \E u \in UserIds : getMyBoardController(u)
  /\ UNCHANGED <<req, prev, done, calls>>

Next == Register \/ Create \/ Move \/ Update \/ Delete \/ Clear \/ Get

Spec == Init /\ [][Next]_vars

\* SpecBoard: one board with several tasks; the observer keeps the previous
\* response.
BoardRegister ==
  /\ registerUser(1)
  /\ prev' = last
  /\ UNCHANGED <<req, done, calls>>

BoardCreate ==
  /\ \E u \in UserIds :
       /\ Len(tasks) < MaxBoardTasks
       /\ createTaskController(u, Str(<<"a">>), Undefined, 0)
       /\ PositionsWithinBound
  /\ prev' = last
  /\ UNCHANGED <<req, done, calls>>

BoardMove ==
  /\ \E u \in UserIds, t \in 1..Len(tasks), c \in ExistingColumns :
       /\ moveTaskController(u, t, c, Undefined)
       /\ PositionsWithinBound
  /\ prev' = last
  /\ UNCHANGED <<req, done, calls>>

BoardClear ==
  /\ \E u \in UserIds : removeDoneTasksController(u)
  /\ prev' = last
  /\ UNCHANGED <<req, done, calls>>

NextBoard == BoardRegister \/ BoardCreate \/ BoardMove \/ BoardClear

SpecBoard == Init /\ [][NextBoard]_vars

\* SpecSeq: one board; the observer keeps which kinds of operation have
\* succeeded.
Succeeded ==
  done' = done \cup (IF last'.status = 200 THEN {last'.op} ELSE {})

SeqRegister ==
  /\ registerUser(1)
  /\ UNCHANGED <<req, prev, done, calls>>

SeqCreate ==
  /\ \E u \in UserIds :
       /\ Len(tasks) < MaxSeqTasks
       /\ createTaskController(u, Str(<<"a">>), Undefined, 0)
       /\ PositionsWithinBound
  /\ UNCHANGED <<req, prev, done, calls>>

SeqMove ==
  /\ \E u \in UserIds, t \in 1..Len(tasks), c \in ExistingColumns, p \in {Undefined, Num(1)} :
       /\ moveTaskController(u, t, c, p)
       /\ PositionsWithinBound
  /\ Succeeded
  /\ UNCHANGED <<req, prev, calls>>

SeqDelete ==
  /\ \E u \in UserIds, t \in 1..Len(tasks) : deleteTaskController(u, t)
  /\ Succeeded
  /\ UNCHANGED <<req, prev, calls>>

SeqClear ==
  /\ \E u \in UserIds : removeDoneTasksController(u)
  /\ Succeeded
  /\ UNCHANGED <<req, prev, calls>>

NextSeq == SeqRegister \/ SeqCreate \/ SeqMove \/ SeqDelete \/ SeqClear

SpecSeq == Init /\ [][NextSeq]_vars

\* SpecClear: two boards with several tasks, each owner moving the own
\* tasks among the own columns and clearing the own DONE column.
ClearRegister ==
  /\ \E e \in Emails : registerUser(e)
  /\ UNCHANGED <<req, prev, done, calls>>

ClearCreate ==
  /\ \E u \in UserIds :
       /\ Len(tasks) < MaxClearTasks
       /\ createTaskController(u, Str(<<"a">>), Undefined, 0)
       /\ PositionsWithinBound
  /\ UNCHANGED <<req, prev, done, calls>>

ClearMove ==
  /\ \E t \in 1..Len(tasks), c \in ExistingColumns :
       /\ columns[c.n].board_id = tasks[t].board_id
       /\ moveTaskController(OwnerOfTask(t), t, c, Undefined)
       /\ PositionsWithinBound
  /\ UNCHANGED <<req, prev, done, calls>>

ClearClear ==
  /\ \E u \in UserIds : removeDoneTasksController(u)
  /\ UNCHANGED <<req, prev, done, calls>>

NextClear == ClearRegister \/ ClearCreate \/ ClearMove \/ ClearClear

SpecClear == Init /\ [][NextClear]_vars

\* SpecCreate: two boards; titles and colours of the created tasks vary.
CreateRegister ==
  /\ \E e \in Emails : registerUser(e)
  /\ req' = NoRequest
  /\ UNCHANGED <<prev, done, calls>>

CreateCreate ==
  /\ \E u \in UserIds, t \in TitleInputs, d \in DescriptionInputs, r \in RandomDraws :
       /\ Len(tasks) < MaxCreateTasks
       /\ createTaskController(u, t, d, r)
       /\ req' = [op |-> "create", title |-> t, description |-> d]
  /\ UNCHANGED <<prev, done, calls>>

NextCreate == CreateRegister \/ CreateCreate

SpecCreate == Init /\ [][NextCreate]_vars

\* SpecContent: one board; titles, descriptions and colours vary and are
\* updated.
ContentRegister ==
  /\ registerUser(1)
  /\ req' = NoRequest
  /\ UNCHANGED <<prev, done, calls>>

ContentCreate ==
  /\ \E u \in UserIds, t \in {Str(<<"b">>)}, d \in DescriptionInputs, r \in {0, 1} :
       /\ Len(tasks) < MaxContentTasks
       /\ createTaskController(u, t, d, r)
       /\ req' = [op |-> "create", title |-> t, description |-> d]
  /\ UNCHANGED <<prev, done, calls>>

ContentUpdate ==
  /\ \E u \in UserIds, t \in TaskIds, ti \in TitleInputs, d \in DescriptionInputs :
       /\ updateTaskController(u, t, ti, d)
       /\ req' = [op |-> "update", title |-> ti, description |-> d]
  /\ UNCHANGED <<prev, done, calls>>

NextContent == ContentRegister \/ ContentCreate \/ ContentUpdate

SpecContent == Init /\ [][NextContent]_vars

\* SpecEdit: one board; every shape of Update body (fields absent, null,
\* empty, blank, filled) against existing and missing tasks.
EditRegister ==
  /\ registerUser(1)
  /\ req' = NoRequest
  /\ UNCHANGED <<prev, done, calls>>

EditCreate ==
  /\ \E u \in UserIds :
       /\ Len(tasks) < MaxEditTasks
       /\ createTaskController(u, Str(<<"b">>), Undefined, 0)
       /\ req' = [op |-> "create", title |-> Str(<<"b">>), description |-> Undefined]
  /\ UNCHANGED <<prev, done, calls>>

EditUpdate ==
  /\ \E u \in UserIds, t \in TaskIds, ti \in TitleInputs,
        d \in {Undefined, Null, Str(<<>>), Str(<<"d">>)} :
       /\ updateTaskController(u, t, ti, d)
       /\ req' = [op |-> "update", title |-> ti, description |-> d]
  /\ UNCHANGED <<prev, done, calls>>

NextEdit == EditRegister \/ EditCreate \/ EditUpdate

SpecEdit == Init /\ [][NextEdit]_vars


\* SpecColor: one board whose tasks are created in every colour and then
\* renamed, moved, deleted and cleared.
ColorRegister ==
  /\ registerUser(1)
  /\ UNCHANGED <<req, prev, done, calls>>

ColorCreate ==
  /\ \E u \in UserIds, r \in RandomDraws :
       /\ Len(tasks) < MaxColorTasks
       /\ createTaskController(u, Str(<<"b">>), Undefined, r)
       /\ PositionsWithinBound
  /\ UNCHANGED <<req, prev, done, calls>>

ColorMove ==
  /\ \E u \in UserIds, t \in 1..Len(tasks), c \in ExistingColumns :
       /\ moveTaskController(u, t, c, Undefined)
       /\ PositionsWithinBound
  /\ UNCHANGED <<req, prev, done, calls>>

ColorUpdate ==
  /\ \E u \in UserIds, t \in 1..Len(tasks) :
       updateTaskController(u, t, Str(<<"a">>), Undefined)
  /\ UNCHANGED <<req, prev, done, calls>>

ColorDelete ==
  /\ \E u \in UserIds, t \in 1..Len(tasks) : deleteTaskController(u, t)
  /\ UNCHANGED <<req, prev, done, calls>>

ColorClear ==
  /\ \E u \in UserIds : removeDoneTasksController(u)
  /\ UNCHANGED <<req, prev, done, calls>>

NextColor ==
  ColorRegister \/ ColorCreate \/ ColorMove \/ ColorUpdate \/ ColorDelete \/ ColorClear

SpecColor == Init /\ [][NextColor]_vars


\* SpecStep: two boards; Create and Move run one await at a time on several
\* connections, so that the reads and writes of different requests
\* interleave.  A Move names the second column of the first board or the
\* first column of the second board, with or without a position.
Answer(s, response) ==
  /\ last' = response
  /\ calls' = [calls EXCEPT ![s] = IdleCall]

StepTargets == {Num(2), Num(4)}

StepRegister ==
  /\ \E e \in Emails : registerUser(e)
  /\ UNCHANGED <<req, prev, done, calls>>

\* createTaskController: the request is accepted (title present)
StepCreateCall ==
  /\ \E s \in Slots, u \in UserIds :
       /\ calls[s].op = "idle"
       /\ Len(tasks) < MaxStepTasks
       /\ calls' = [calls EXCEPT ![s] =
                      [IdleCall EXCEPT !.op = "create", !.step = "findTodo", !.user = u]]
  /\ UNCHANGED <<users, boards, columns, tasks, now, last, req, prev, done>>

\* createTaskForUser: await findTodoColumnForUser(userId)
StepCreateFindTodo ==
  /\ \E s \in Slots :
       /\ calls[s].op = "create" /\ calls[s].step = "findTodo"
       /\ LET result == findTodoColumnForUser(calls[s].user)
          IN IF result = <<>> \/ result[1].column = <<>>
               THEN Answer(s, Response("create", 404, 0, 0))
               ELSE /\ calls' = [calls EXCEPT ![s].step = "position",
                                              ![s].board = result[1].board.id,
                                              ![s].column = result[1].column[1].id]
                    /\ UNCHANGED last
  /\ UNCHANGED <<users, boards, columns, tasks, now, req, prev, done>>

\* createTaskForUser: await getNextPositionForColumn(column.id)
StepCreatePosition ==
  /\ \E s \in Slots :
       /\ calls[s].op = "create" /\ calls[s].step = "position"
       /\ calls' = [calls EXCEPT ![s].step = "insert",
                                 ![s].position = getNextPositionForColumn(calls[s].column)]
  /\ UNCHANGED <<users, boards, columns, tasks, now, last, req, prev, done>>

\* createTaskForUser: await createTask(...), then 201
StepCreateInsert ==
  /\ \E s \in Slots :
       /\ calls[s].op = "create" /\ calls[s].step = "insert"
       /\ Len(tasks) < MaxStepTasks
       /\ tasks' = createTask(calls[s].board, calls[s].column, Str(<<"a">>), Undefined,
                              calls[s].position, getRandomPastelColor(0))
       /\ Answer(s, Response("create", 201, 0, 0))
  /\ UNCHANGED <<users, boards, columns, now, req, prev, done>>

\* moveTaskController: the request is accepted (target_column_id present)
StepMoveCall ==
  /\ \E s \in Slots, u \in UserIds, t \in 1..Len(tasks), c \in StepTargets,
        p \in {Undefined, Num(1)} :
       /\ calls[s].op = "idle"
       /\ calls' = [calls EXCEPT ![s] =
                      [IdleCall EXCEPT !.op = "move", !.step = "findTask", !.user = u,
                                       !.task = t, !.target = c.n,
                                       !.position = IF Falsy(p) THEN 0 ELSE PositionValue(p)]]
  /\ UNCHANGED <<users, boards, columns, tasks, now, last, req, prev, done>>

\* moveTaskForUser: await findTaskByIdForUser({ taskId, userId })
StepMoveFindTask ==
  /\ \E s \in Slots :
       /\ calls[s].op = "move" /\ calls[s].step = "findTask"
       /\ LET task == findTaskByIdForUser(calls[s].task, calls[s].user)
          IN IF task = <<>>
               THEN Answer(s, Response("move", 404, 0, 0))
               ELSE /\ calls' = [calls EXCEPT ![s].step = "findColumn",
                                              ![s].board = task[1].board_id]
                    /\ UNCHANGED last
  /\ UNCHANGED <<users, boards, columns, tasks, now, req, prev, done>>

StepMoveFindColumnNoBoardCheck ==
  /\ \E s \in Slots :
       /\ calls[s].op = "move" /\ calls[s].step = "findColumn"
       /\ LET column == findColumnById(calls[s].target)
          IN IF column = <<>>
               THEN Answer(s, Response("move", 404, 0, 0))
             ELSE /\ calls' = [calls EXCEPT
                                ![s].step = IF calls[s].position = 0 THEN "position" ELSE "write",
                                ![s].column = column[1].id]
                  /\ UNCHANGED last
  /\ UNCHANGED <<users, boards, columns, tasks, now, req, prev, done>>

\* moveTaskForUser: await findColumnById(targetColumnId), the board check,
\* and the choice between the position of the request and the next one
StepMoveFindColumn ==
  /\ \E s \in Slots :
       /\ calls[s].op = "move" /\ calls[s].step = "findColumn"
       /\ LET column == findColumnById(calls[s].target)
          IN IF column = <<>>
               THEN Answer(s, Response("move", 404, 0, 0))
             ELSE IF column[1].board_id # calls[s].board
               THEN Answer(s, Response("move", 403, 0, 0))
             ELSE /\ calls' = [calls EXCEPT
                                ![s].step = IF calls[s].position = 0 THEN "position" ELSE "write",
                                ![s].column = column[1].id]
                  /\ UNCHANGED last
  /\ UNCHANGED <<users, boards, columns, tasks, now, req, prev, done>>

\* moveTaskForUser: await getNextPositionForColumn(column.id)
StepMovePosition ==
  /\ \E s \in Slots :
       /\ calls[s].op = "move" /\ calls[s].step = "position"
       /\ calls' = [calls EXCEPT ![s].step = "write",
                                 ![s].position = getNextPositionForColumn(calls[s].column)]
  /\ UNCHANGED <<users, boards, columns, tasks, now, last, req, prev, done>>

StepMoveWriteColumnOnly ==
  /\ \E s \in Slots :
       /\ calls[s].op = "move" /\ calls[s].step = "write"
       /\ tasks' = moveTaskToColumn(calls[s].task, calls[s].column,
                                    tasks[calls[s].task].position)
       /\ PositionsWithinBound
       /\ Answer(s, Response("move", 200, 0, 0))
  /\ UNCHANGED <<users, boards, columns, now, req, prev, done>>

\* moveTaskForUser: await moveTaskToColumn(...), then 200
StepMoveWrite ==
  /\ \E s \in Slots :
       /\ calls[s].op = "move" /\ calls[s].step = "write"
       /\ tasks' = moveTaskToColumn(calls[s].task, calls[s].column, calls[s].position)
       /\ PositionsWithinBound
       /\ Answer(s, Response("move", 200, 0, 0))
  /\ UNCHANGED <<users, boards, columns, now, req, prev, done>>

NextStep ==
  \/ StepRegister
  \/ StepCreateCall \/ StepCreateFindTodo \/ StepCreatePosition \/ StepCreateInsert
  \/ StepMoveCall \/ StepMoveFindTask \/ StepMoveFindColumn \/ StepMovePosition
  \/ StepMoveWrite

SpecStep == Init /\ [][NextStep]_vars


\* SpecLane: one board; Moves of existing and missing tasks to existing and
\* missing columns, and board reads.
LaneRegister ==
  /\ registerUser(1)
  /\ UNCHANGED <<req, prev, done, calls>>

LaneCreate ==
  /\ \E u \in UserIds :
       /\ Len(tasks) < MaxLaneTasks
       /\ createTaskController(u, Str(<<"a">>), Undefined, 0)
       /\ PositionsWithinBound
  /\ UNCHANGED <<req, prev, done, calls>>

LaneMove ==
  /\ \E u \in UserIds, t \in TaskIds, c \in NamedColumns, p \in {Undefined, Num(1)} :
       /\ moveTaskController(u, t, c, p)
       /\ PositionsWithinBound
  /\ UNCHANGED <<req, prev, done, calls>>

LaneGet ==
  /\ \E u \in UserIds : getMyBoardController(u)
  /\ UNCHANGED <<req, prev, done, calls>>

NextLane == LaneRegister \/ LaneCreate \/ LaneMove \/ LaneGet

SpecLane == Init /\ [][NextLane]_vars


\* SpecPos: one board; Moves with every kind of position in the request
\* (absent, zero, positive, negative, not a number), and Deletes.
PosRegister ==
  /\ registerUser(1)
  /\ UNCHANGED <<req, prev, done, calls>>

PosCreate ==
  /\ \E u \in UserIds :
       /\ Len(tasks) < MaxPosTasks
       /\ createTaskController(u, Str(<<"a">>), Undefined, 0)
       /\ PositionsWithinBound
  /\ UNCHANGED <<req, prev, done, calls>>

PosMove ==
  /\ \E u \in UserIds, t \in 1..Len(tasks), c \in ExistingColumns, p \in PositionInputs :
       /\ moveTaskController(u, t, c, p)
       /\ PositionsWithinBound
  /\ UNCHANGED <<req, prev, done, calls>>

PosDelete ==
  /\ \E u \in UserIds, t \in 1..Len(tasks) : deleteTaskController(u, t)
  /\ UNCHANGED <<req, prev, done, calls>>

NextPos == PosRegister \/ PosCreate \/ PosMove \/ PosDelete

SpecPos == Init /\ [][NextPos]_vars


\* SpecClock: one board; the database clock advances between requests.
Tick ==
  /\ now < MaxTime
  /\ now' = now + 1
  /\ UNCHANGED <<users, boards, columns, tasks, last, req, prev, done, calls>>

ClockRegister ==
  /\ registerUser(1)
  /\ UNCHANGED <<req, prev, done, calls>>

ClockCreate ==
  /\ \E u \in UserIds :
       /\ Len(tasks) < MaxClockTasks
       /\ createTaskController(u, Str(<<"b">>), Undefined, 0)
       /\ PositionsWithinBound
  /\ UNCHANGED <<req, prev, done, calls>>

ClockMove ==
  /\ \E u \in UserIds, t \in 1..Len(tasks), c \in ExistingColumns :
       /\ moveTaskController(u, t, c, Num(1))
       /\ PositionsWithinBound
  /\ UNCHANGED <<req, prev, done, calls>>

ClockUpdate ==
  /\ \E u \in UserIds, t \in 1..Len(tasks) :
       updateTaskController(u, t, Str(<<"a">>), Undefined)
  /\ UNCHANGED <<req, prev, done, calls>>

NextClock == Tick \/ ClockRegister \/ ClockCreate \/ ClockMove \/ ClockUpdate

SpecClock == Init /\ [][NextClock]_vars


\* SpecFlow: one board; the owner moves tasks among the three columns and
\* reads the board.  The observer keeps the previous response.
FlowRegister ==
  /\ registerUser(1)
  /\ prev' = last
  /\ UNCHANGED <<req, done, calls>>

FlowCreate ==
  /\ \E u \in UserIds :
       /\ Len(tasks) < MaxFlowTasks
       /\ createTaskController(u, Str(<<"a">>), Undefined, 0)
       /\ PositionsWithinBound
  /\ prev' = last
  /\ UNCHANGED <<req, done, calls>>

FlowMove ==
  /\ \E u \in UserIds, t \in 1..Len(tasks), c \in ExistingColumns, p \in {Undefined, Num(1)} :
       /\ moveTaskController(u, t, c, p)
       /\ PositionsWithinBound
  /\ prev' = last
  /\ UNCHANGED <<req, done, calls>>

FlowGet ==
  /\ \E u \in UserIds : getMyBoardController(u)
  /\ prev' = last
  /\ UNCHANGED <<req, done, calls>>

NextFlow == FlowRegister \/ FlowCreate \/ FlowMove \/ FlowGet

SpecFlow == Init /\ [][NextFlow]_vars

(* ------------------------------ properties ---------------------------- *)
\* C1 Ownership isolation: a Move (naming any column), an Update (carrying a
\* field) or a Delete issued by user u against an active task t of another
\* user's board answers 404 and leaves every task as it was.
C1_OwnershipIsolation ==
  [][\A u \in UserIds, t \in 1..Len(tasks) :
       (/\ tasks[t].is_deleted = FALSE
        /\ OwnerOfTask(t) # u
        /\ last'.user = u
        /\ last'.task = t
        /\ \/ /\ last'.op = "move"
              /\ \E c \in NamedColumns, p \in PositionInputs :
                   moveTaskController(u, t, c, p)
           \/ /\ last'.op = "update"
              /\ \E ti \in TitleInputs, d \in DescriptionInputs :
                   /\ ~(Falsy(ti) /\ Falsy(d))
                   /\ updateTaskController(u, t, ti, d)
           \/ /\ last'.op = "delete"
              /\ deleteTaskController(u, t))
       => (last'.status = 404 /\ tasks' = tasks)]_vars

\* A Move against an active task of another user's board has been answered.
C1_Witness ==
  /\ last.op = "move"
  /\ last.status = 404
  /\ last.user \in UserIds
  /\ last.task \in 1..Len(tasks)
  /\ tasks[last.task].is_deleted = FALSE
  /\ OwnerOfTask(last.task) # last.user

\* C2 Cross-board move rejection: a Move by the owner of the active task t
\* that names an existing column of another board answers 403 and leaves
\* the task's column_id and position as they were.
C2_CrossBoardMoveRejected ==
  [][\A t \in 1..Len(tasks) :
       (/\ tasks[t].is_deleted = FALSE
        /\ last'.user = OwnerOfTask(t)
        /\ last'.task = t
        /\ \E c \in ExistingColumns, p \in PositionInputs :
             /\ columns[c.n].board_id # tasks[t].board_id
             /\ moveTaskController(OwnerOfTask(t), t, c, p))
       => (/\ last'.status = 403
           /\ tasks'[t].column_id = tasks[t].column_id
           /\ tasks'[t].position = tasks[t].position)]_vars

\* The owner's Move of an active task has been answered 403.
C2_Witness ==
  /\ last.op = "move"
  /\ last.status = 403
  /\ last.task \in 1..Len(tasks)
  /\ tasks[last.task].is_deleted = FALSE
  /\ OwnerOfTask(last.task) = last.user
  /\ Len(boards) >= 2

\* C3 Soft-delete exclusion: a Get board answered while task t is
\* soft-deleted does not return t, whoever asks.
C3_SoftDeleteExclusion ==
  [][\A t \in 1..Len(tasks) :
       (tasks[t].is_deleted /\ last'.op = "get") => t \notin last'.ids]_vars

\* The owner has read the board after one of its tasks was soft-deleted.
C3_Witness ==
  /\ last.op = "get"
  /\ last.status = 200
  /\ \E t \in 1..Len(tasks) : tasks[t].is_deleted /\ OwnerOfTask(t) = last.user

\* C4 DELETED is absorbing: a soft-deleted task stays soft-deleted, and a
\* Move (naming any column), an Update (carrying a field) or a Delete aimed
\* at it by any user answers 404.
C4_DeletedAbsorbing ==
  [][\A t \in 1..Len(tasks) :
       tasks[t].is_deleted =>
         /\ Len(tasks') >= t
         /\ tasks'[t].is_deleted
         /\ \A u \in UserIds :
              (/\ last'.user = u
               /\ last'.task = t
               /\ \/ /\ last'.op = "move"
                     /\ \E c \in NamedColumns, p \in PositionInputs :
                          moveTaskController(u, t, c, p)
                  \/ /\ last'.op = "update"
                     /\ \E ti \in TitleInputs, d \in DescriptionInputs :
                          /\ ~(Falsy(ti) /\ Falsy(d))
                          /\ updateTaskController(u, t, ti, d)
                  \/ /\ last'.op = "delete"
                     /\ deleteTaskController(u, t))
              => last'.status = 404]_vars

\* The owner's Move, Update or Delete of a soft-deleted task has been answered.
C4_Witness ==
  /\ last.op \in {"move", "update", "delete"}
  /\ last.status = 404
  /\ last.task \in 1..Len(tasks)
  /\ tasks[last.task].is_deleted
  /\ OwnerOfTask(last.task) = last.user

\* C5 Bulk-clear idempotence: a Bulk-clear DONE by user u answers 200 with
\* the number of tasks that were active in the DONE column of u's board;
\* when the request before it was a Bulk-clear by the same user, it answers
\* 200 with removedCount 0 and the board's set of active tasks is the one
\* the first call left.
C5_BulkClearIdempotent ==
  [][\A u \in UserIds :
       (last'.op = "clear" /\ last'.user = u /\ removeDoneTasksController(u))
       => LET active == {i \in 1..Len(tasks) :
                           /\ boards[tasks[i].board_id].owner_id = u
                           /\ tasks[i].is_deleted = FALSE}
              inDone == {i \in active : columns[tasks[i].column_id].slug = "DONE"}
          IN /\ last'.status = 200
             /\ last'.count = Cardinality(inDone)
             /\ (last.op = "clear" /\ last.user = u /\ last.status = 200)
                => /\ last'.count = 0
                   /\ {i \in 1..Len(tasks') :
                         /\ boards[tasks'[i].board_id].owner_id = u
                         /\ tasks'[i].is_deleted = FALSE} = active]_vars

\* Two Bulk-clears in a row by one user: the first removed a task, the
\* second removed none.
C5_Witness ==
  /\ last.op = "clear"
  /\ last.status = 200
  /\ last.count = 0
  /\ prev.op = "clear"
  /\ prev.status = 200
  /\ prev.user = last.user
  /\ prev.count >= 1

\* C6 Bulk-clear frame: a Bulk-clear DONE by user u soft-deletes exactly the
\* tasks that are active in the DONE column of u's board and returns their
\* number; every other task (in TODO or IN_PROGRESS of u's board, or on any
\* other board) keeps is_deleted, deleted_at, column_id and position.
C6_BulkClearFrame ==
  [][\A u \in UserIds :
       (last'.op = "clear" /\ last'.user = u /\ removeDoneTasksController(u))
       => LET hit == {i \in 1..Len(tasks) :
                        /\ boards[tasks[i].board_id].owner_id = u
                        /\ columns[tasks[i].column_id].slug = "DONE"
                        /\ tasks[i].is_deleted = FALSE}
          IN /\ last'.count = Cardinality(hit)
             /\ Len(tasks') = Len(tasks)
             /\ \A i \in hit :
                  tasks'[i].is_deleted /\ tasks'[i].deleted_at = now
             /\ \A i \in (1..Len(tasks)) \ hit :
                  /\ tasks'[i].is_deleted = tasks[i].is_deleted
                  /\ tasks'[i].deleted_at = tasks[i].deleted_at
                  /\ tasks'[i].column_id = tasks[i].column_id
                  /\ tasks'[i].position = tasks[i].position]_vars

\* A Bulk-clear removed a task while another user's DONE column held an
\* active task, which is still active.
C6_Witness ==
  /\ last.op = "clear"
  /\ last.count >= 1
  /\ \E i \in 1..Len(tasks) :
       /\ boards[tasks[i].board_id].owner_id # last.user
       /\ columns[tasks[i].column_id].slug = "DONE"
       /\ tasks[i].is_deleted = FALSE

C8_CreateEffect ==
  [][\A u \in UserIds :
       (last'.op = "create" /\ last'.status = 201 /\ last'.user = u)
       => /\ Len(tasks') = Len(tasks) + 1
          /\ SubSeq(tasks', 1, Len(tasks)) = tasks
          /\ columns' = columns
          /\ boards' = boards
          /\ LET new == tasks'[Len(tasks')]
             IN /\ new.is_deleted = FALSE
                /\ new.deleted_at = -1
                /\ boards[new.board_id].owner_id = u
                /\ columns[new.column_id].board_id = new.board_id
                /\ columns[new.column_id].slug = "TODO"
                /\ new.color \in {"pastel-yellow", "pastel-pink",
                                  "pastel-green", "pastel-blue"}]_vars

\* The second registered user has created a task while the first user's
\* board already held one.
C8_Witness ==
  /\ last.op = "create"
  /\ last.status = 201
  /\ last.user = 2
  /\ Len(tasks) >= 2
  /\ boards[tasks[1].board_id].owner_id = 1

\* C9 as stated: a Create whose title is missing or trims to the empty
\* string answers 400 and creates no task.
C9_BlankTitleRejected ==
  [][(/\ last'.op = "create"
      /\ req'.op = "create"
      /\ \/ req'.title.k = "undef"
         \/ req'.title.k = "str" /\ Trim(req'.title.s) = <<>>)
     => (last'.status = 400 /\ tasks' = tasks)]_vars

\* C10 Partial update frame: no Update changes the number of tasks or any
\* task's column_id, position, color or is_deleted; a successful Update of
\* task t that carries only a title sets the title and keeps the
\* description, and one that carries only a description keeps the title.
C10_PartialUpdateFrame ==
  [][(last'.op = "update" /\ req'.op = "update")
     => /\ Len(tasks') = Len(tasks)
        /\ \A i \in 1..Len(tasks) :
             /\ tasks'[i].column_id = tasks[i].column_id
             /\ tasks'[i].position = tasks[i].position
             /\ tasks'[i].color = tasks[i].color
             /\ tasks'[i].is_deleted = tasks[i].is_deleted
             /\ i # last'.task => tasks'[i] = tasks[i]
        /\ \A t \in 1..Len(tasks) :
             (last'.status = 200 /\ last'.task = t)
             => /\ (req'.title.k = "str" /\ req'.description.k = "undef")
                   => /\ tasks'[t].title = req'.title.s
                      /\ tasks'[t].description = tasks[t].description
                /\ (req'.title.k = "undef" /\ req'.description.k = "str")
                   => /\ tasks'[t].title = tasks[t].title
                      /\ tasks'[t].description = req'.description]_vars

\* An Update carrying only a title has renamed a task that has a
\* description, and the description is still there.
C10_Witness ==
  /\ last.op = "update"
  /\ last.status = 200
  /\ req.op = "update"
  /\ req.title = Str(<<"a">>)
  /\ req.description = Undefined
  /\ last.task \in 1..Len(tasks)
  /\ tasks[last.task].title = <<"a">>
  /\ tasks[last.task].description = Str(<<"d">>)

\* C11 as stated: an Update answers 400 exactly when its body carries
\* neither a title nor a description (absent or null), and a rejected
\* Update leaves the tasks as they were.
C11_RejectedIffNoField ==
  [][(last'.op = "update" /\ req'.op = "update")
     => /\ (last'.status = 400)
           <=> (/\ req'.title.k \in {"undef", "null"}
                /\ req'.description.k \in {"undef", "null"})
        /\ (last'.status = 400) => (tasks' = tasks)]_vars

\* C12 Color immutability: no step (Update, Move, Delete one, Bulk-clear,
\* or a later Create) changes the color of an existing task, so a task's
\* color is always the one it had right after its creation.
C12_ColorImmutable ==
  [][/\ Len(tasks') >= Len(tasks)
     /\ \A i \in 1..Len(tasks) : tasks'[i].color = tasks[i].color]_vars

\* A task created pastel-blue has been renamed, moved to DONE and cleared.
C12_Witness ==
  /\ last.op = "clear"
  /\ last.count = 1
  /\ Len(tasks) >= 1
  /\ tasks[1].color = "pastel-blue"
  /\ tasks[1].title = <<"a">>
  /\ tasks[1].is_deleted

\* C13 Board agreement: in every state every task's board_id is the
\* board_id of the column its column_id names, however the steps of
\* concurrent Creates and Moves by any users interleave.
C13_TaskBoardIsColumnBoard ==
  \A i \in 1..Len(tasks) :
    /\ tasks[i].column_id \in 1..Len(columns)
    /\ columns[tasks[i].column_id].board_id = tasks[i].board_id

\* A Move of a task of the second board has been answered 200 while
\* another Move of the same task, already past its checks, is in flight.
C13_Witness ==
  /\ Len(boards) >= 2
  /\ last.op = "move"
  /\ last.status = 200
  /\ \E i \in 1..Len(tasks), s \in Slots :
       /\ tasks[i].board_id = 2
       /\ calls[s].op = "move"
       /\ calls[s].step = "write"
       /\ calls[s].task = i

C15_MovePosition ==
  [][/\ \A u \in UserIds, t \in 1..Len(tasks), c \in ExistingColumns, p \in PositionInputs :
          (/\ last'.op = "move"
           /\ last'.status = 200
           /\ last'.user = u
           /\ last'.task = t
           /\ moveTaskController(u, t, c, p))
          => LET inColumn == {tasks[i].position : i \in {j \in 1..Len(tasks) :
                                 tasks[j].column_id = c.n /\ tasks[j].is_deleted = FALSE}}
                 next == IF inColumn = {} THEN 1 ELSE Max(inColumn) + 1
             IN tasks'[t].position = IF p.k = "num" /\ p.n > 0 THEN p.n ELSE next
     /\ \A i \in 1..Len(tasks') : tasks'[i].position > 0]_vars

\* C16 as stated: when the clock has advanced since task t was last
\* written, a successful Update or Move of t leaves t with an updated_at
\* later than the one it had.
C16_UpdatedAtAdvances ==
  [][\A t \in 1..Len(tasks) :
       (/\ last'.op \in {"update", "move"}
        /\ last'.status = 200
        /\ last'.task = t
        /\ tasks[t].updated_at < now)
       => tasks'[t].updated_at > tasks[t].updated_at]_vars

C18_MovesReversible ==
  [][/\ (last'.op = "move" /\ last'.task \in 1..Len(tasks))
        => LET t == last'.task
           IN (tasks[t].is_deleted = FALSE /\ last'.user = OwnerOfTask(t))
              => \A c \in ExistingColumns :
                   (/\ columns[c.n].board_id = tasks[t].board_id
                    /\ \E p \in {Undefined, Num(1)} :
                         moveTaskController(OwnerOfTask(t), t, c, p))
                   => (last'.status = 200 /\ tasks'[t].column_id = c.n)
     /\ (last'.op = "get")
        => \A u \in UserIds :
             (last'.user = u /\ getMyBoardController(u))
             => last'.shown = {<<i, tasks[i].column_id>> : i \in {j \in 1..Len(tasks) :
                                 /\ boards[tasks[j].board_id].owner_id = u
                                 /\ tasks[j].is_deleted = FALSE}}]_vars

\* A Get board that follows a successful Move lists the moved task in the
\* TODO column while another task is in DONE: the task went to TODO by a
\* Move, and tasks have been moved forward as well.
C18_Witness ==
  /\ last.op = "get"
  /\ last.status = 200
  /\ prev.op = "move"
  /\ prev.status = 200
  /\ prev.task \in 1..Len(tasks)
  /\ <<prev.task, tasks[prev.task].column_id>> \in last.shown
  /\ columns[tasks[prev.task].column_id].slug = "TODO"
  /\ \E i \in 1..Len(tasks) : columns[tasks[i].column_id].slug = "DONE"

(* ------------------------ registration, by awaits --------------------- *)
\* registerUser runs without a transaction: every await of it is a step,
\* so that two registrations and the requests of users whose row is stored
\* interleave.  A database error (a unique violation) reaches the error
\* handler without a status and is answered 500.
UniqueViolation == 23505

\* registerController: email, password and name are present
RegCall ==
  /\ \E s \in Slots, e \in Emails :
       /\ calls[s].op = "idle"
       /\ calls' = [calls EXCEPT ![s] =
                      [IdleCall EXCEPT !.op = "register", !.step = "findUser", !.email = e]]
  /\ UNCHANGED <<users, boards, columns, tasks, now, last, req, prev, done>>

\* registerUser: await findUserByEmail(email)
RegFindUser ==
  /\ \E s \in Slots :
       /\ calls[s].op = "register" /\ calls[s].step = "findUser"
       /\ IF findUserByEmail(calls[s].email) # <<>>
            THEN Answer(s, Response("register", 409, 0, 0))
            ELSE /\ calls' = [calls EXCEPT ![s].step = "createUser"]
                 /\ UNCHANGED last
  /\ UNCHANGED <<users, boards, columns, tasks, now, req, prev, done>>

\* registerUser: await hashPassword(password); await createUser(...)
RegCreateUser ==
  /\ \E s \in Slots :
       /\ calls[s].op = "register" /\ calls[s].step = "createUser"
       /\ IF emailIsFree(calls[s].email)
            THEN /\ users' = createUser(calls[s].email)
                 /\ calls' = [calls EXCEPT ![s].step = "createBoard",
                                           ![s].user = Len(users) + 1]
                 /\ UNCHANGED last
            ELSE /\ Answer(s, Response("register", 500, 0, 0))
                 /\ UNCHANGED users
  /\ UNCHANGED <<boards, columns, tasks, now, req, prev, done>>

\* registerUser: await createBoardForUser({ ownerId: user.id })
RegCreateBoard ==
  /\ \E s \in Slots :
       /\ calls[s].op = "register" /\ calls[s].step = "createBoard"
       /\ IF ownerIdIsFree(calls[s].user)
            THEN /\ boards' = createBoardForUser(calls[s].user)
                 /\ calls' = [calls EXCEPT ![s].step = "column",
                                           ![s].board = Len(boards) + 1,
                                           ![s].column = 1]
                 /\ UNCHANGED last
            ELSE /\ Answer(s, Response("register", 500, calls[s].user, 0))
                 /\ UNCHANGED boards
  /\ UNCHANGED <<users, columns, tasks, now, req, prev, done>>

\* createDefaultColumnsForBoard: one await query(INSERT INTO columns ...) of
\* the loop; after the third the registration is answered 201
RegInsertColumn ==
  /\ \E s \in Slots :
       /\ calls[s].op = "register" /\ calls[s].step = "column"
       /\ columns' = insertDefaultColumn(calls[s].board, calls[s].column)
       /\ IF calls[s].column = Len(DefaultColumns)
            THEN Answer(s, Response("register", 201, calls[s].user, 0))
            ELSE /\ calls' = [calls EXCEPT ![s].column = calls[s].column + 1]
                 /\ UNCHANGED last
  /\ UNCHANGED <<users, boards, tasks, now, req, prev, done>>

\* INSERT INTO boards (owner_id) for a stored user, outside registration
RegInsertBoard ==
  /\ \E u \in UserIds :
       IF ownerIdIsFree(u)
         THEN /\ boards' = createBoardForUser(u)
              /\ last' = Response("board", 201, u, 0)
         ELSE /\ boards' = boards
              /\ last' = Response("board", UniqueViolation, u, 0)
  /\ UNCHANGED <<users, columns, tasks, now, req, prev, done, calls>>

\* a stored user can log in, and so can ask for the board
RegGet ==
  /\ \E u \in UserIds : getMyBoardController(u)
  /\ UNCHANGED <<req, prev, done, calls>>

RegClear ==
  /\ \E u \in UserIds : removeDoneTasksController(u)
  /\ UNCHANGED <<req, prev, done, calls>>

NextOwner ==
  \/ RegCall
  \/ RegFindUser
  \/ RegCreateUser
  \/ RegCreateBoard
  \/ RegInsertColumn
  \/ RegInsertBoard

SpecOwner == Init /\ [][NextOwner]_vars

NextReg ==
  \/ RegCall
  \/ RegFindUser
  \/ RegCreateUser
  \/ RegCreateBoard
  \/ RegInsertColumn
  \/ RegGet
  \/ RegClear

SpecReg == Init /\ [][NextReg]_vars

\* C19 One board per owner: in every state each user owns at most one
\* board, and an attempt to insert a second board for an owner who has one
\* is rejected and leaves the boards as they were.
C19_OneBoardPerOwner ==
  [][/\ \A i, j \in 1..Len(boards') :
          boards'[i].owner_id = boards'[j].owner_id => i = j
     /\ \A i \in 1..Len(boards) : boards'[i] = boards[i]
     /\ (/\ last'.op = "board"
         /\ calls' = calls
         /\ \E i \in 1..Len(boards) : boards[i].owner_id = last'.user)
        => (last'.status = UniqueViolation /\ boards' = boards)
     /\ \A s \in Slots :
          (/\ calls[s].op = "register" /\ calls[s].step = "createBoard"
           /\ calls'[s] # calls[s]
           /\ \E i \in 1..Len(boards) : boards[i].owner_id = calls[s].user)
          => (calls'[s] = IdleCall /\ last'.status = 500 /\ boards' = boards)]_vars

\* Two users own a board each, and the last insert of a board for one of
\* them has been rejected.
C19_Witness ==
  /\ last.op = "board"
  /\ last.status = UniqueViolation
  /\ Len(boards) = 2
  /\ \E i \in 1..Len(boards) : boards[i].owner_id = last.user

\* C20 Three columns: every Get board answered 200 lists the columns TODO,
\* IN_PROGRESS and DONE in this order, every Bulk-clear of a user who has a
\* board finds the DONE column, and no step removes a column or adds one to
\* a board that has its three.
C20_ThreeColumnsObserved ==
  [][/\ (last'.op = "get" /\ last' # last /\ last'.status = 200)
        => last'.slugs = DefaultColumns
     /\ (last'.op = "clear" /\ last' # last /\ findBoardByOwnerId(last'.user) # <<>>)
        => last'.status = 200
     /\ \A i \in 1..Len(columns) : columns'[i] = columns[i]
     /\ \A b \in 1..Len(boards) :
          Len(getColumnsByBoardId(b)) = Len(DefaultColumns)
          => getColumnsByBoardId(b)' = getColumnsByBoardId(b)]_vars

\* C21 Duplicate email: no two users share an email, and every registration
\* that ends without success is answered 409 and has stored no user, board
\* or column in the step that ends it.
C21_DuplicateEmailConflict ==
  [][/\ \A i, j \in 1..Len(users') : users'[i].email = users'[j].email => i = j
     /\ \A s \in Slots :
          (/\ calls[s].op = "register"
           /\ calls'[s] = IdleCall
           /\ last'.status # 201)
          => /\ last'.op = "register"
             /\ last'.status = 409
             /\ UNCHANGED <<users, boards, columns>>]_vars

(* -------------------- requests during a registration ------------------ *)
\* The registration steps with Get board, Create and Bulk-clear of stored
\* users between them: a caller with no board yet, or with a board that
\* lacks some of its columns.
MissingCreate ==
  /\ \E u \in UserIds :
       /\ Len(tasks) < MaxMissingTasks
       /\ createTaskController(u, Str(<<"a">>), Undefined, 0)
  /\ UNCHANGED <<req, prev, done, calls>>

MissingGet ==
  /\ \E u \in UserIds : getMyBoardController(u)
  /\ UNCHANGED <<req, prev, done, calls>>

MissingClear ==
  /\ \E u \in UserIds : removeDoneTasksController(u)
  /\ UNCHANGED <<req, prev, done, calls>>

NextMissing ==
  \/ RegCall
  \/ RegFindUser
  \/ RegCreateUser
  \/ RegCreateBoard
  \/ RegInsertColumn
  \/ MissingCreate
  \/ MissingGet
  \/ MissingClear

SpecMissing == Init /\ [][NextMissing]_vars

\* C22 No board, no column: a Get board, a Create or a Bulk-clear by a user
\* who has no board answers 404 and changes nothing stored; so does a Create
\* by a user whose board has no TODO column and a Bulk-clear by a user whose
\* board has no DONE column.
C22_NoBoardNotFound ==
  [][(calls' = calls /\ last'.op \in {"get", "create", "clear"})
     => LET board == findBoardByOwnerId(last'.user)
        IN (\/ board = <<>>
            \/ /\ last'.op = "create"
               /\ board # <<>>
               /\ findColumnBySlug(board[1].id, "TODO") = <<>>
            \/ /\ last'.op = "clear"
               /\ board # <<>>
               /\ findColumnBySlug(board[1].id, "DONE") = <<>>)
           => /\ last'.status = 404
              /\ UNCHANGED <<users, boards, columns, tasks>>]_vars

\* A Bulk-clear has been answered 404 for a user whose board has its TODO
\* column and a task in it, and no DONE column.
C22_Witness ==
  /\ last.op = "clear"
  /\ last.status = 404
  /\ findBoardByOwnerId(last.user) # <<>>
  /\ findColumnBySlug(findBoardByOwnerId(last.user)[1].id, "TODO") # <<>>
  /\ findDoneColumnForBoard(findBoardByOwnerId(last.user)[1].id) = <<>>
  /\ \E i \in 1..Len(tasks) : tasks[i].board_id = findBoardByOwnerId(last.user)[1].id

(* ------------------------------ board reads --------------------------- *)
\* Two boards with active and soft-deleted tasks; each owner moves tasks
\* to the DONE column of the own board, clears DONE and reads the board.
ReadRegister ==
  /\ \E e \in Emails : registerUser(e)
  /\ UNCHANGED <<req, prev, done, calls>>

ReadCreate ==
  /\ \E u \in UserIds :
       /\ Len(tasks) < MaxReadTasks
       /\ createTaskController(u, Str(<<"a">>), Undefined, 0)
  /\ UNCHANGED <<req, prev, done, calls>>

ReadMove ==
  /\ \E t \in 1..Len(tasks), c \in ExistingColumns :
       /\ columns[c.n].board_id = tasks[t].board_id
       /\ columns[c.n].slug = "DONE"
       /\ tasks[t].column_id # c.n
       /\ moveTaskController(OwnerOfTask(t), t, c, Num(1))
  /\ UNCHANGED <<req, prev, done, calls>>

ReadClear ==
  /\ \E u \in UserIds : removeDoneTasksController(u)
  /\ UNCHANGED <<req, prev, done, calls>>

ReadGet ==
  /\ \E u \in UserIds : getMyBoardController(u)
  /\ UNCHANGED <<req, prev, done, calls>>

NextRead == ReadRegister \/ ReadCreate \/ ReadMove \/ ReadClear \/ ReadGet

SpecRead == Init /\ [][NextRead]_vars

\* C23 Read isolation: a Get board by user u answers the board owned by u,
\* all columns of that board and no other, in ascending order of position,
\* and exactly the tasks that are active and on that board.
C23_ReadIsolation ==
  [][(last'.op = "get" /\ last'.status = 200)
     => LET u == last'.user
            b == last'.board
            cs == last'.cols
        IN /\ b \in 1..Len(boards)
           /\ boards[b].owner_id = u
           /\ \A i \in 1..Len(cs) : columns[cs[i]].board_id = b
           /\ {cs[i] : i \in 1..Len(cs)} =
                {c \in 1..Len(columns) : columns[c].board_id = b}
           /\ \A i, j \in 1..Len(cs) :
                i < j => columns[cs[i]].position < columns[cs[j]].position
           /\ last'.ids = {t \in 1..Len(tasks) :
                             tasks[t].board_id = b /\ tasks[t].is_deleted = FALSE}
           /\ \A t \in last'.ids : boards[tasks[t].board_id].owner_id = u]_vars

\* A Get board has answered one active task to its owner while the other
\* board holds an active task and a task of the reader's board is deleted.
C23_Witness ==
  /\ last.op = "get"
  /\ last.status = 200
  /\ Cardinality(last.ids) = 1
  /\ Len(last.cols) = 3
  /\ \E t \in 1..Len(tasks) : tasks[t].board_id # last.board /\ tasks[t].is_deleted = FALSE
  /\ \E t \in 1..Len(tasks) : tasks[t].board_id = last.board /\ tasks[t].is_deleted

(* --------------------------- concurrent moves ------------------------- *)
\* One board; Moves of its tasks to IN_PROGRESS or DONE run await by await
\* on two connections.  The call keeps the row that findTaskByIdForUser
\* returned (the local variable task); its column is kept in from.
RaceTargets == {Num(2), Num(3)}

RaceRegister ==
  /\ registerUser(1)
  /\ UNCHANGED <<req, prev, done, calls>>

RaceCreate ==
  /\ Len(tasks) < MaxRaceTasks
  /\ \E u \in UserIds : createTaskController(u, Str(<<"a">>), Undefined, 0)
  /\ UNCHANGED <<req, prev, done, calls>>

RaceMoveCall ==
  /\ \E s \in Slots, t \in 1..Len(tasks), c \in RaceTargets,
        p \in {Undefined, Num(1), Num(2)} :
       /\ calls[s].op = "idle"
       /\ calls' = [calls EXCEPT ![s] =
                      [IdleCall EXCEPT !.op = "move", !.step = "findTask",
                                       !.user = OwnerOfTask(t),
                                       !.task = t, !.target = c.n,
                                       !.position = IF Falsy(p) THEN 0 ELSE PositionValue(p)]]
  /\ UNCHANGED <<users, boards, columns, tasks, now, last, req, prev, done>>

\* moveTaskForUser: const task = await findTaskByIdForUser({ taskId, userId })
RaceMoveFindTask ==
  /\ \E s \in Slots :
       /\ calls[s].op = "move" /\ calls[s].step = "findTask"
       /\ LET task == findTaskByIdForUser(calls[s].task, calls[s].user)
          IN IF task = <<>>
               THEN Answer(s, Response("move", 404, 0, 0))
               ELSE /\ calls' = [calls EXCEPT ![s].step = "findColumn",
                                              ![s].board = task[1].board_id,
                                              ![s].from = task[1].column_id]
                    /\ UNCHANGED last
  /\ UNCHANGED <<users, boards, columns, tasks, now, req, prev, done>>

NextRace ==
  \/ RaceRegister
  \/ RaceCreate
  \/ RaceMoveCall
  \/ RaceMoveFindTask
  \/ StepMoveFindColumn
  \/ StepMovePosition
  \/ StepMoveWrite

SpecRace == Init /\ [][NextRace]_vars

\* C24 Last write wins: every Move that found its task active and its
\* column on the board is answered 200 by its write, whatever another Move
\* of the same task has done meanwhile; the write leaves the task with the
\* column and the position of that Move, both together, and no step other
\* than a Move's write changes the column or the position of a task.
C24_LastWriteWins ==
  [][/\ \A s \in Slots :
          (calls[s].op = "move" /\ calls[s].step = "write" /\ calls'[s] = IdleCall)
          => /\ last'.op = "move"
             /\ last'.status = 200
             /\ tasks'[calls[s].task].column_id = calls[s].column
             /\ tasks'[calls[s].task].position = calls[s].position
             /\ \A i \in 1..Len(tasks) : i # calls[s].task => tasks'[i] = tasks[i]
     /\ (\A s \in Slots : ~(calls[s].step = "write" /\ calls'[s] = IdleCall))
        => \A i \in 1..Len(tasks) :
             /\ tasks'[i].column_id = tasks[i].column_id
             /\ tasks'[i].position = tasks[i].position
     /\ \A s \in Slots :
          (calls[s].op = "move" /\ calls[s].step \in {"findColumn", "position"}
           /\ calls'[s] # calls[s])
          => calls'[s].step \in {"position", "write"}]_vars

\* Two Moves of one task interleaved: one has written DONE with position 1
\* and been answered 200 while the other, which found the task in TODO, is
\* about to write IN_PROGRESS with position 2.
C24_Witness ==
  /\ last.op = "move"
  /\ last.status = 200
  /\ \E s \in Slots :
       /\ calls[s].op = "move"
       /\ calls[s].step = "write"
       /\ calls[s].from = 1
       /\ calls[s].column = 2
       /\ calls[s].position = 2
       /\ tasks[calls[s].task].column_id = 3
       /\ tasks[calls[s].task].position = 1

(* -------------------------- concurrent creates ------------------------ *)
\* Creates run await by await on two connections, by one user or by two:
\* the position is read by one query and the row inserted by another.
DupRegister ==
  /\ \E e \in Emails : registerUser(e)
  /\ UNCHANGED <<req, prev, done, calls>>

DupCreateCall ==
  /\ \E s \in Slots, u \in UserIds :
       /\ calls[s].op = "idle"
       /\ Len(tasks) + Cardinality({x \in Slots : calls[x].op = "create"}) < MaxDupTasks
       /\ calls' = [calls EXCEPT ![s] =
                      [IdleCall EXCEPT !.op = "create", !.step = "findTodo", !.user = u]]
  /\ UNCHANGED <<users, boards, columns, tasks, now, last, req, prev, done>>

DupCreateInsertFreshPosition ==
  /\ \E s \in Slots :
       /\ calls[s].op = "create" /\ calls[s].step = "insert"
       /\ tasks' = createTask(calls[s].board, calls[s].column, Str(<<"a">>), Undefined,
                              getNextPositionForColumn(calls[s].column),
                              getRandomPastelColor(0))
       /\ Answer(s, Response("create", 201, calls[s].user, Len(tasks) + 1))
  /\ UNCHANGED <<users, boards, columns, now, req, prev, done>>

\* createTaskForUser: await createTask(...), then 201
DupCreateInsert ==
  /\ \E s \in Slots :
       /\ calls[s].op = "create" /\ calls[s].step = "insert"
       /\ tasks' = createTask(calls[s].board, calls[s].column, Str(<<"a">>), Undefined,
                              calls[s].position, getRandomPastelColor(0))
       /\ Answer(s, Response("create", 201, calls[s].user, Len(tasks) + 1))
  /\ UNCHANGED <<users, boards, columns, now, req, prev, done>>

NextDup ==
  \/ DupRegister
  \/ DupCreateCall
  \/ StepCreateFindTodo
  \/ StepCreatePosition
  \/ DupCreateInsert

SpecDup == Init /\ [][NextDup]_vars

\* C25 Racing creates: the insert of a Create succeeds with the position
\* that Create read.  The new task shares its position with a task of the
\* same column exactly when another insert into the column came between
\* the read and the insert (the position read is no longer the next one);
\* a Create whose read and insert are not separated by another insert gets
\* a position no task of the column has.
C25_RacingCreatesSamePosition ==
  [][\A s \in Slots :
       (calls[s].op = "create" /\ calls[s].step = "insert" /\ calls'[s] = IdleCall)
       => LET new == Len(tasks) + 1
              same == {i \in 1..Len(tasks) :
                         /\ tasks[i].column_id = calls[s].column
                         /\ tasks[i].is_deleted = FALSE
                         /\ tasks[i].position = calls[s].position}
          IN /\ last'.op = "create"
             /\ last'.status = 201
             /\ Len(tasks') = new
             /\ tasks'[new].column_id = calls[s].column
             /\ tasks'[new].position = calls[s].position
             /\ (same # {}) <=> (calls[s].position # getNextPositionForColumn(calls[s].column))]_vars

\* Two Creates of one user have both been answered 201 and their tasks
\* have the same position in the TODO column.
C25_Witness ==
  /\ last.op = "create"
  /\ last.status = 201
  /\ Len(tasks) = 2
  /\ tasks[1].column_id = tasks[2].column_id
  /\ tasks[1].position = tasks[2].position
  /\ tasks[1].is_deleted = FALSE
  /\ tasks[2].is_deleted = FALSE

(* ------------------------ moves against deletions --------------------- *)
\* The Moves of SpecRace with Bulk-clears of the board between their awaits.
LateClear ==
  /\ \E u \in UserIds : removeDoneTasksController(u)
  /\ UNCHANGED <<req, prev, done, calls>>

NextLate ==
  \/ RaceRegister
  \/ RaceCreate
  \/ RaceMoveCall
  \/ RaceMoveFindTask
  \/ StepMoveFindColumn
  \/ StepMovePosition
  \/ StepMoveWrite
  \/ LateClear

SpecLate == Init /\ [][NextLate]_vars

\* C26 Deleted tasks stay put: no step changes the column or the position
\* of a task that is soft-deleted.
C26_DeletedNeverRelocated ==
  [][\A i \in 1..Len(tasks) :
       tasks[i].is_deleted
       => /\ tasks'[i].column_id = tasks[i].column_id
          /\ tasks'[i].position = tasks[i].position]_vars

(* ----------------------- updates against deletions -------------------- *)
\* One board; an Update runs await by await while the owner moves the task
\* to DONE and clears DONE.  The response carries the id of the task it
\* returns, 0 for a null body.
StaleRegister ==
  /\ registerUser(1)
  /\ UNCHANGED <<req, prev, done, calls>>

StaleCreate ==
  /\ Len(tasks) < MaxStaleTasks
  /\ \E u \in UserIds : createTaskController(u, Str(<<"a">>), Undefined, 0)
  /\ UNCHANGED <<req, prev, done, calls>>

StaleMove ==
  /\ \E t \in 1..Len(tasks), c \in ExistingColumns :
       /\ columns[c.n].slug = "DONE"
       /\ tasks[t].column_id # c.n
       /\ moveTaskController(OwnerOfTask(t), t, c, Num(1))
  /\ UNCHANGED <<req, prev, done, calls>>

StaleClear ==
  /\ \E u \in UserIds : removeDoneTasksController(u)
  /\ UNCHANGED <<req, prev, done, calls>>

\* updateTaskController: a title is present
StaleUpdateCall ==
  /\ \E s \in Slots, t \in 1..Len(tasks) :
       /\ calls[s].op = "idle"
       /\ calls' = [calls EXCEPT ![s] =
                      [IdleCall EXCEPT !.op = "update", !.step = "findTask",
                                       !.user = OwnerOfTask(t), !.task = t]]
  /\ UNCHANGED <<users, boards, columns, tasks, now, last, req, prev, done>>

\* updateTaskForUser: await findTaskByIdForUser({ taskId, userId })
StaleUpdateFindTask ==
  /\ \E s \in Slots :
       /\ calls[s].op = "update" /\ calls[s].step = "findTask"
       /\ IF findTaskByIdForUser(calls[s].task, calls[s].user) = <<>>
            THEN Answer(s, Response("update", 404, calls[s].user, calls[s].task))
            ELSE /\ calls' = [calls EXCEPT ![s].step = "write"]
                 /\ UNCHANGED last
  /\ UNCHANGED <<users, boards, columns, tasks, now, req, prev, done>>

\* updateTaskForUser: return await updateTask(...), res.rows[0] || null;
\* the controller answers 200 with what it got
StaleUpdateWrite ==
  /\ \E s \in Slots :
       /\ calls[s].op = "update" /\ calls[s].step = "write"
       /\ tasks' = updateTask(calls[s].task, Str(<<"b">>), Undefined)
       /\ Answer(s, Response("update", 200, calls[s].user,
                             IF tasks[calls[s].task].is_deleted THEN 0 ELSE calls[s].task))
  /\ UNCHANGED <<users, boards, columns, now, req, prev, done>>

NextStale ==
  \/ StaleRegister
  \/ StaleCreate
  \/ StaleMove
  \/ StaleClear
  \/ StaleUpdateCall
  \/ StaleUpdateFindTask
  \/ StaleUpdateWrite

SpecStale == Init /\ [][NextStale]_vars

\* C27 Update ends labelled: an Update that ends is answered 200 with the
\* task, active and carrying the new title, or 400 or 404; when the task is
\* soft-deleted at the time of the write, the Update changes no task and is
\* answered 404.
C27_UpdateNeverNullSuccess ==
  [][\A s \in Slots :
       (calls[s].op = "update" /\ calls'[s] = IdleCall)
       => /\ last'.op = "update"
          /\ \/ /\ last'.status = 200
                /\ last'.task = calls[s].task
                /\ tasks'[calls[s].task].is_deleted = FALSE
                /\ tasks'[calls[s].task].title = <<"b">>
             \/ last'.status \in {400, 404} /\ tasks' = tasks
          /\ tasks[calls[s].task].is_deleted
             => (last'.status = 404 /\ tasks' = tasks)]_vars

\* C28 Titles never empty: in every state the title of every active task
\* is non-empty after trimming.
C28_TitleNeverEmpty ==
  \A i \in 1..Len(tasks) :
    tasks[i].is_deleted = FALSE => Trim(tasks[i].title) # <<>>

(* -------------------------- moves within a column --------------------- *)
\* One board whose owner creates tasks, moves them to any column of the
\* board, the current one included, with position 1 or none, and clears
\* DONE.
SameRegister ==
  /\ registerUser(1)
  /\ UNCHANGED <<req, prev, done, calls>>

SameCreate ==
  /\ \E u \in UserIds :
       /\ Len(tasks) < MaxSameTasks
       /\ createTaskController(u, Str(<<"a">>), Undefined, 0)
       /\ PositionsWithinBound
  /\ UNCHANGED <<req, prev, done, calls>>

SameMove ==
  /\ \E t \in 1..Len(tasks), c \in ExistingColumns, p \in {Undefined, Num(1)} :
       /\ moveTaskController(OwnerOfTask(t), t, c, p)
       /\ PositionsWithinBound
  /\ UNCHANGED <<req, prev, done, calls>>

SameClear ==
  /\ \E u \in UserIds : removeDoneTasksController(u)
  /\ UNCHANGED <<req, prev, done, calls>>

NextSame == SameRegister \/ SameCreate \/ SameMove \/ SameClear

SpecSame == Init /\ [][NextSame]_vars

\* C29 Move within the column: a Move by the owner of the active task t to
\* the column t is in, without a position, answers 200, leaves t in the
\* column and every other task as it was, and sets the position of t to one
\* more than the largest position among the active tasks of the column, t
\* included: greater than the position t had and than the position of every
\* other active task of the column.
C29_SameColumnMove ==
  [][(last'.op = "move" /\ last'.task \in 1..Len(tasks))
     => LET t == last'.task
            c == tasks[t].column_id
            inColumn == {i \in 1..Len(tasks) :
                           tasks[i].column_id = c /\ tasks[i].is_deleted = FALSE}
        IN (/\ tasks[t].is_deleted = FALSE
            /\ moveTaskController(OwnerOfTask(t), t, Num(c), Undefined))
           => /\ last'.status = 200
              /\ tasks'[t].column_id = c
              /\ tasks'[t].position = Max({tasks[i].position : i \in inColumn}) + 1
              /\ tasks'[t].position > tasks[t].position
              /\ \A i \in inColumn \ {t} : tasks'[i].position < tasks'[t].position
              /\ \A i \in 1..Len(tasks) : i # t => tasks'[i] = tasks[i]]_vars

\* The last request moved a task that is active in DONE and has position 2
\* while the only other task was cleared from DONE earlier: a Move into
\* DONE from another column would have given position 1, so the task was
\* moved from DONE to DONE.
C29_Witness ==
  /\ last.op = "move"
  /\ last.status = 200
  /\ Len(tasks) = 2
  /\ last.task \in 1..Len(tasks)
  /\ tasks[last.task].is_deleted = FALSE
  /\ columns[tasks[last.task].column_id].slug = "DONE"
  /\ tasks[last.task].position = 2
  /\ \E i \in 1..Len(tasks) :
       /\ i # last.task
       /\ tasks[i].is_deleted
       /\ tasks[i].column_id = tasks[last.task].column_id

(* ------------------------------ board page ---------------------------- *)
\* KanbanBoard.handleDragEnd over the tasks the page shows, which are those
\* of the latest GET /me/board (the page refetches after every request).
\* over is the column under the pointer, or Undefined outside any column.
\* The result is the Move to send, or the empty sequence for none.
handleDragEnd(shown, taskId, over) ==
  LET task == FirstRow(SelectSeq(shown, LAMBDA t : t.id = taskId))
  IN IF Falsy(over) THEN <<>>
     ELSE IF task = <<>> \/ task[1].column_id = over.n THEN <<>>
     ELSE LET targetColumnTasks == SelectSeq(shown, LAMBDA t : t.column_id = over.n)
          IN <<[taskId |-> taskId, targetColumnId |-> over,
                newPosition |-> Num(Len(targetColumnTasks) + 1)]>>

DragRegister ==
  /\ registerUser(1)
  /\ UNCHANGED <<req, prev, done, calls>>

DragCreate ==
  /\ \E u \in UserIds :
       /\ Len(tasks) < MaxDragTasks
       /\ createTaskController(u, Str(<<"a">>), Undefined, 0)
  /\ UNCHANGED <<req, prev, done, calls>>

DragClear ==
  /\ \E u \in UserIds : removeDoneTasksController(u)
  /\ UNCHANGED <<req, prev, done, calls>>

\* a drop by the owner of the board; a drop that sends nothing is recorded
\* as response "drop"
DragDrop ==
  /\ \E u \in UserIds, t \in 1..Len(tasks), over \in {Undefined} \cup ExistingColumns :
       LET board == findBoardByOwnerId(u)
           shown == IF board = <<>> THEN <<>> ELSE getActiveTasksByBoardId(board[1].id)
           move == handleDragEnd(shown, t, over)
       IN IF move = <<>>
            THEN /\ last' = Response("drop", 0, u, t)
                 /\ UNCHANGED <<users, boards, columns, tasks, now>>
            ELSE moveTaskController(u, move[1].taskId, move[1].targetColumnId,
                                    move[1].newPosition)
  /\ UNCHANGED <<req, prev, done, calls>>

NextDrag == DragRegister \/ DragCreate \/ DragClear \/ DragDrop

SpecDrag == Init /\ [][NextDrag]_vars

\* C30 Drop appends: a Move sent by a drop on another column is answered
\* 200 and leaves the task with a position greater than that of every
\* active task that was in the target column; a drop outside any column or
\* on the task's column changes nothing.
C30_DropAppends ==
  [][/\ (last'.op = "move" /\ last'.task \in 1..Len(tasks))
        => LET t == last'.task
           IN /\ last'.status = 200
              /\ tasks'[t].column_id # tasks[t].column_id
              /\ \A i \in 1..Len(tasks) :
                   (/\ i # t
                    /\ tasks[i].is_deleted = FALSE
                    /\ tasks[i].column_id = tasks'[t].column_id)
                   => tasks[i].position < tasks'[t].position
     /\ (last'.op = "drop") => tasks' = tasks]_vars
====
